---- MODULE Spec2Model ----
(***************************************************************************)
(* A model of the shaderpack loading code of nova-renderer:                *)
(*   - the pipeline inheritance resolver of parse_pipelines_from_json      *)
(*     (fill_field / fill_in_pipeline_state_field),                        *)
(*   - load_shaderpack,                                                    *)
(*   - the two default-pass caches get_default_bedrock_passes and          *)
(*     get_default_optifine_passes.                                        *)
(* Source: src/main/cpp/data_loading/loaders/shader_loading.cpp            *)
(***************************************************************************)
EXTENDS Integers, Sequences, FiniteSets, TLC

\* ------------------------------------------------------------------ bounds
\* number of pipeline names an input document may use
NumPipelines == 2
\* number of the pipeline_data fields (in the order of lines 141-169) kept
NumFields == 2
\* number of distinct documents a loader may return for one document kind
NumDocs == 2
\* number of calls of the get_default_*_passes functions in one process
MaxAccesses == 3
\* number of threads that call the get_default_*_passes functions
NumThreads == 2
\* most GPUs in render_context::gpus, most queue families of a GPU
MaxGpus == 2
MaxFamilies == 2

\* ------------------------------------------------------- pipeline_data
\* an optional<> without a value
None == "<none>"

AllNames == <<"a", "b", "c", "d">>
Names == {AllNames[i] : i \in 1..NumPipelines}
\* a name that no document uses as a key
MissingName == "missing"

\* the fields in the order in which parse_pipelines_from_json fills them
AllFields ==
    << "pass", "defines", "states", "vertex_shader", "fragment_shader",
       "geometry_shader", "tessellation_evaluation_shader",
       "tessellation_control_shader", "vertex_fields", "front_face",
       "back_face", "input_textures", "output_textures", "depth_texture",
       "filters", "fallback", "depth_bias", "slope_scaled_depth_bias",
       "stencil_ref", "stencil_read_mask", "stencil_write_mask",
       "msaa_support", "primitive_mode", "source_blend_factor",
       "destination_blend_factor", "alpha_src", "alpha_dst", "depth_func",
       "render_queue" >>

FieldOrder == SubSeq(AllFields, 1, NumFields)
Fields == {FieldOrder[i] : i \in 1..NumFields}

\* pipeline_data(name, parent_name, json_node)
pipeline_data(name, parent_name, node) ==
    [name |-> name, parent_name |-> parent_name, fields |-> node]

\* a default constructed pipeline_data, what operator[] inserts for a new key
DefaultPipeline == pipeline_data("", None, [f \in Fields |-> None])

\* The json node of a pipeline: a field is absent or carries a value
Present == {TRUE, FALSE}

\* definition_map after the loop of lines 109-125 for the keys K: one entry
\* per key, the entry's name is its key, the parent is par[k] and the field f
\* is set when node[k][f].  A value is tagged with the name of the pipeline
\* that defines it, so that the origin of an inherited value is visible.
DefinitionMap(K, par, node) ==
    [k \in K |->
        pipeline_data(k, par[k], [f \in Fields |-> IF node[k][f] THEN k ELSE None])]

\* ---------------------------------------------- fill_in_pipeline_state_field
\* std::unordered_map::operator[] : the map after the lookup of name, which
\* inserts a default constructed value when name is not a key
Subscript(all, name) ==
    IF name \in DOMAIN all THEN all ELSE all @@ (name :> DefaultPipeline)

\* One pass through the body of while(!value_found), lines 86-97.
\* us and cur_state are two references to all_pipelines[our_name], so the
\* assignment of line 88 copies the parent's whole entry over our entry.
LoopBody(all, our_name, f) ==
    LET parent_name == all[our_name].parent_name IN
    IF parent_name # None
    THEN LET looked == Subscript(all, parent_name)
             assigned == [looked EXCEPT ![our_name] = looked[parent_name]]
             field_value == assigned[our_name].fields[f]
         IN  [all |-> IF field_value # None
                      THEN [assigned EXCEPT ![our_name].fields[f] = field_value]
                      ELSE assigned,
              value_found |-> field_value # None,
              brk |-> FALSE]
    ELSE [all |-> all, value_found |-> FALSE, brk |-> TRUE]

\* fill_field takes the map by value: what the caller's map is after the call
\* that worked on the copy
FillFieldByReference(caller_map, copy_after) == copy_after
FillFieldCallerMap(caller_map, copy_after) == caller_map

\* line 132, auto &cur_state = item.second
CurStateEmptied(map, key) == [DefaultPipeline EXCEPT !.name = key]
CurState(map, key) == map[key]

\* ------------------------------------------------------------------ state
VARIABLES
    parsed,          \* definition_map as it was after parsing (history)
    definition_map,  \* parse_pipelines_from_json::definition_map
    todo,            \* keys the loop of line 131 has still to reach
    item,            \* key of the entry the loop of line 131 is at
    field_idx,       \* which of the fill_field calls of lines 141-169
    all_pipelines,   \* the map fill_in_pipeline_state_field works on
    value_found,     \* fill_in_pipeline_state_field::value_found
    pipelines,       \* the vector returned
    pc,              \* position in parse_pipelines_from_json
    visited,         \* names looked up so far by the running walk (history)
    revisited        \* the running walk looked a name up again (history)

resolver_vars == << parsed, definition_map, todo, item, field_idx,
                    all_pipelines, value_found, pipelines, pc, visited, revisited >>

VARIABLES
    is_zip,          \* is_zip_file(shaderpack_name) of the last load_shaderpack
    user_docs,       \* what the four load_*_from_folder calls returned (history)
    profile,         \* the default profile that applies to the shaderpack
    pack,            \* load_shaderpack::pack
    load_result,     \* how the last load_shaderpack call ended
    errors,          \* what was logged as an error: a document kind found
                     \* empty (lines 63-71), or "zip" (line 212)
    kinds_read       \* the document kinds the last call ran a loader for (history)

load_vars == << is_zip, user_docs, profile, pack, load_result, errors, kinds_read >>

VARIABLES
    files,                    \* content of the files under config/default
    default_bedrock_passes,   \* the static of get_default_bedrock_passes
    default_optifine_passes,  \* the static of get_default_optifine_passes
    accesses,                 \* calls of the two functions so far (history)
    loads,                    \* per cache: loads of a file into it (history)
    first_loaded,             \* per cache: the document of its first load (history)
    loaded_from,              \* per cache: the paths it was loaded from (history)
    last_returned             \* per cache: what the last call returned (history)

cache_vars == << files, default_bedrock_passes, default_optifine_passes,
                 accesses, loads, first_loaded, loaded_from, last_returned >>

VARIABLES
    th_pc,           \* per thread: where it is in get_default_*_passes
    th_fn,           \* per thread: which of the two functions it calls
    th_doc,          \* per thread: the document load_json_from_stream gave it
    th_ret,          \* per thread: the document it found behind the reference
                     \* the function returned
    file_reads,      \* per cache: reads of the backing file by threads (history)
    cache_writes,    \* per cache: assignments to the static by threads (history)
    saw_torn         \* a thread has read a static that was being written (history)

thread_vars == << th_pc, th_fn, th_doc, th_ret, file_reads, cache_writes, saw_torn >>

VARIABLES
    gpus_size,           \* render_context::gpus.size()
    gpu_i,               \* gpus the loop of select_physical_device has passed
    gpu,                 \* render_context::gpu, the gpu_info selected
    graphics_family_idx, \* render_context::graphics_family_idx
    present_family_idx,  \* render_context::present_family_idx
    sel_pc               \* position in select_physical_device

gpu_vars == << gpus_size, gpu_i, gpu, graphics_family_idx, present_family_idx, sel_pc >>

vars == << resolver_vars, load_vars, cache_vars, thread_vars, gpu_vars >>

EmptyMap == [k \in {} |-> DefaultPipeline]

\* ------------------------------------------------------- shaderpack_data
Kinds == {"pipelines_by_pass", "passes", "dynamic_textures", "materials"}
AllDocs == <<"doc1", "doc2", "doc3", "doc4">>
Docs == {AllDocs[i] : i \in 1..NumDocs}

\* shaderpack_data{} : the four collections empty
EmptyPack == [k \in Kinds |-> {}]

Profiles == {"Bedrock", "Optifine"}

\* the documents of a default profile, one complete set per document kind
ProfileDocs(prof, kind) == {prof}

\* no load_shaderpack call has been made
LoadIdle ==
    /\ is_zip = FALSE
    /\ user_docs = EmptyPack
    /\ profile = None
    /\ pack = EmptyPack
    /\ load_result = "none"
    /\ errors = {}
    /\ kinds_read = {}

\* ----------------------------------------------------- the default caches
BedrockPath == "config/default/bedrock_passes.json"
OptifinePath == "config/default/optifine_passes.json"
Paths == {BedrockPath, OptifinePath}

\* the path get_default_bedrock_passes opens, line 220
BedrockPathRead == "config/default/bedrock_passes.json"
\* the path get_default_optifine_passes opens, line 235
OptifinePathRead == "config/default/bedrock_passes.json"

\* json documents: a default constructed json is null; a file holds the text
\* of an array or an object, empty or not, which load_json_from_stream turns
\* into that document, or the file does not exist
JsonNull == "null"
Absent == "<absent>"
FileDocs == {"[]", "{}", "[x]", "[y]"}

\* nlohmann::json::empty(): true for null and for an empty array or object
JsonEmpty(doc) == doc \in {JsonNull, "[]", "{}"}

Caches == {"bedrock", "optifine"}

\* the process has started: the statics are default constructed json values
\* and no function has been called
CacheIdle ==
    /\ default_bedrock_passes = JsonNull
    /\ default_optifine_passes = JsonNull
    /\ accesses = 0
    /\ loads = [c \in Caches |-> 0]
    /\ first_loaded = [c \in Caches |-> None]
    /\ loaded_from = [c \in Caches |-> {}]
    /\ last_returned = [c \in Caches |-> None]

\* ------------------------------------------------------------- threads
Threads == 1..NumThreads

\* a json document that is read while another thread assigns to it
Torn == "<torn>"

\* no thread has called a get_default_*_passes function
ThreadIdle ==
    /\ th_pc = [t \in Threads |-> "idle"]
    /\ th_fn = [t \in Threads |-> None]
    /\ th_doc = [t \in Threads |-> None]
    /\ th_ret = [t \in Threads |-> None]
    /\ file_reads = [c \in Caches |-> 0]
    /\ cache_writes = [c \in Caches |-> 0]
    /\ saw_torn = FALSE

\* select_physical_device has not been called
GpuIdle ==
    /\ gpus_size = 0
    /\ gpu_i = 0
    /\ gpu = None
    /\ graphics_family_idx = None
    /\ present_family_idx = None
    /\ sel_pc = "idle"

\* the resolver has not been called
ResolverIdle ==
    /\ parsed = EmptyMap
    /\ definition_map = EmptyMap
    /\ todo = {}
    /\ item = None
    /\ field_idx = 0
    /\ all_pipelines = EmptyMap
    /\ value_found = FALSE
    /\ pipelines = << >>
    /\ pc = "idle"
    /\ visited = {}
    /\ revisited = FALSE

\* lines 102-103 and 81-83: fill_field copies the caller's map, and
\* fill_in_pipeline_state_field looks our entry up in the copy
EnterFillField(map, our_name, idx) ==
    /\ all_pipelines' = Subscript(map, our_name)
    /\ value_found' = (all_pipelines'[our_name].fields[FieldOrder[idx]] # None)
    /\ visited' = {our_name}
    /\ revisited' = FALSE

\* the loop of lines 85-98 is at its end: the value is found, or line 96
LoopEnds ==
    value_found \/ LoopBody(all_pipelines, item, FieldOrder[field_idx]).brk

\* the parent is absent or any name, a key of the map or not
ResolverInit ==
    /\ \E K \in SUBSET Names :
        \E par \in [K -> Names \cup {MissingName, None}],
           node \in [K -> [Fields -> Present]] :
            parsed = DefinitionMap(K, par, node)
    /\ definition_map = parsed
    /\ todo = DOMAIN parsed
    /\ item = None
    /\ field_idx = 0
    /\ all_pipelines = EmptyMap
    /\ value_found = FALSE
    /\ pipelines = << >>
    /\ pc = "iterate"
    /\ visited = {}
    /\ revisited = FALSE
    /\ LoadIdle
    /\ CacheIdle
    /\ ThreadIdle
    /\ GpuIdle
    /\ files = [p \in Paths |-> Absent]

\* lines 131-139: the loop reaches an entry without parent and pushes it.
\* The iteration order of an unordered_map is unspecified: any remaining key.
PushParentless ==
    /\ pc = "iterate"
    /\ \E k \in todo :
        /\ CurState(definition_map, k).parent_name = None
        /\ pipelines' = Append(pipelines, CurState(definition_map, k))
        /\ todo' = todo \ {k}
    /\ UNCHANGED << parsed, definition_map, item, field_idx, all_pipelines,
                    value_found, pc, visited, revisited >>
    /\ UNCHANGED << load_vars, cache_vars, thread_vars, gpu_vars >>

\* lines 131-141: the loop reaches an entry with a parent and makes the
\* first fill_field call
BeginFill ==
    /\ pc = "iterate"
    /\ \E k \in todo :
        /\ CurState(definition_map, k).parent_name # None
        /\ item' = k
        /\ EnterFillField(definition_map, k, 1)
    /\ field_idx' = 1
    /\ pc' = "walk"
    /\ UNCHANGED << parsed, definition_map, todo, pipelines >>
    /\ UNCHANGED << load_vars, cache_vars, thread_vars, gpu_vars >>

\* lines 85-94: one pass through the loop, which moves to the parent
WalkToParent ==
    /\ pc = "walk"
    /\ ~LoopEnds
    /\ LET r == LoopBody(all_pipelines, item, FieldOrder[field_idx])
           parent_name == all_pipelines[item].parent_name
       IN  /\ all_pipelines' = r.all
           /\ value_found' = r.value_found
           /\ revisited' = (revisited \/ parent_name \in visited)
           /\ visited' = visited \cup {parent_name}
    /\ UNCHANGED << parsed, definition_map, todo, item, field_idx, pipelines, pc >>
    /\ UNCHANGED << load_vars, cache_vars, thread_vars, gpu_vars >>

\* lines 85, 95-99 and 142-169: the loop ends, fill_field returns (its copy
\* of the map is destroyed) and the next fill_field call is made
NextField ==
    /\ pc = "walk"
    /\ LoopEnds
    /\ field_idx < NumFields
    /\ definition_map' = FillFieldCallerMap(definition_map, all_pipelines)
    /\ field_idx' = field_idx + 1
    /\ EnterFillField(definition_map', item, field_idx')
    /\ UNCHANGED << parsed, todo, item, pipelines, pc >>
    /\ UNCHANGED << load_vars, cache_vars, thread_vars, gpu_vars >>

\* lines 85, 95-99 and 169-173: the loop ends, the last fill_field call
\* returns and cur_state is pushed
PushFilled ==
    /\ pc = "walk"
    /\ LoopEnds
    /\ field_idx = NumFields
    /\ definition_map' = FillFieldCallerMap(definition_map, all_pipelines)
    /\ pipelines' = Append(pipelines, CurState(definition_map', item))
    /\ todo' = todo \ {item}
    /\ item' = None
    /\ field_idx' = 0
    /\ all_pipelines' = EmptyMap
    /\ value_found' = FALSE
    /\ visited' = {}
    /\ pc' = "iterate"
    /\ UNCHANGED << parsed, revisited >>
    /\ UNCHANGED << load_vars, cache_vars, thread_vars, gpu_vars >>

\* line 176
ReturnPipelines ==
    /\ pc = "iterate"
    /\ todo = {}
    /\ pc' = "done"
    /\ UNCHANGED << parsed, definition_map, todo, item, field_idx,
                    all_pipelines, value_found, pipelines, visited, revisited >>
    /\ UNCHANGED << load_vars, cache_vars, thread_vars, gpu_vars >>

ResolverNext ==
    \/ PushParentless
    \/ BeginFill
    \/ WalkToParent
    \/ NextField
    \/ PushFilled
    \/ ReturnPipelines

ResolverSpec == ResolverInit /\ [][ResolverNext]_vars

\* ------------------------------------------- the resolver as a function
\* The same code run to its end for a given iteration order of the map and a
\* given order of the fill_field calls.  A result is a record: ends says
\* whether the code came to its end, val is what it left behind.  A walk that
\* ends looks every name up at most once, so more passes through the loop
\* than there are names mean that it does not end.
Ended(v) == [ends |-> TRUE, val |-> v]
Diverges == [ends |-> FALSE, val |-> << >>]

RECURSIVE RunLoop(_, _, _, _, _)
RunLoop(all, our_name, f, found, fuel) ==
    IF found THEN Ended(all)
    ELSE LET r == LoopBody(all, our_name, f) IN
         IF r.brk THEN Ended(all)
         ELSE IF fuel = 0 THEN Diverges
         ELSE RunLoop(r.all, our_name, f, r.value_found, fuel - 1)

\* lines 80-99 as a whole: the map the function leaves behind
fill_in_pipeline_state_field(all_in, our_name, f) ==
    LET all == Subscript(all_in, our_name) IN
    RunLoop(all, our_name, f, all[our_name].fields[f] # None,
            Cardinality(DOMAIN all \cup Names \cup {MissingName}) + 1)

\* lines 102-104 as a whole: the caller's map after fill_field(name, map, f)
fill_field(name, map, f) ==
    LET after == fill_in_pipeline_state_field(map, name, f) IN
    IF after.ends THEN Ended(FillFieldCallerMap(map, after.val)) ELSE Diverges

RECURSIVE FillAll(_, _, _)
FillAll(name, map, fs) ==
    IF fs = << >> THEN Ended(map)
    ELSE LET r == fill_field(name, map, Head(fs)) IN
         IF r.ends THEN FillAll(name, r.val, Tail(fs)) ELSE Diverges

\* lines 131-176 as a whole, the map iterated in the order keys and the
\* fields filled in the order fs: the vector returned
RECURSIVE ResolveInOrder(_, _, _, _)
ResolveInOrder(map, keys, fs, out) ==
    IF keys = << >> THEN Ended(out)
    ELSE LET k == Head(keys) IN
         IF CurState(map, k).parent_name = None
         THEN ResolveInOrder(map, Tail(keys), fs, Append(out, CurState(map, k)))
         ELSE LET filled == FillAll(k, map, fs) IN
              IF filled.ends
              THEN ResolveInOrder(filled.val, Tail(keys), fs,
                                  Append(out, CurState(filled.val, k)))
              ELSE Diverges

Range(s) == {s[i] : i \in DOMAIN s}
Orders(S) == {o \in [1..Cardinality(S) -> S] : Range(o) = S}

\* ------------------------------------------------ what the claims speak of
\* the definitions on the chain p, p.parent, ... of the parsed document
RECURSIVE Chain(_, _, _)
Chain(defs, name, seen) ==
    IF name = None \/ name \notin DOMAIN defs \/ name \in seen THEN << >>
    ELSE << name >> \o Chain(defs, defs[name].parent_name, seen \cup {name})

\* the chain of p runs into a name it has already passed
RECURSIVE ChainHasCycle(_, _, _)
ChainHasCycle(defs, name, seen) ==
    IF name = None \/ name \notin DOMAIN defs THEN FALSE
    ELSE IF name \in seen THEN TRUE
    ELSE ChainHasCycle(defs, defs[name].parent_name, seen \cup {name})

\* the chain of p names a parent that is not a key
RECURSIVE ChainDangles(_, _, _)
ChainDangles(defs, name, seen) ==
    IF name = None \/ name \in seen THEN FALSE
    ELSE IF name \notin DOMAIN defs THEN TRUE
    ELSE ChainDangles(defs, defs[name].parent_name, seen \cup {name})

Acyclic(defs, p) == ~ChainHasCycle(defs, p, {}) /\ ~ChainDangles(defs, p, {})

\* the value of f in the nearest definition of the chain that sets f
Nearest(defs, p, f) ==
    LET c == Chain(defs, p, {})
        setters == {i \in DOMAIN c : defs[c[i]].fields[f] # None}
    IN  IF setters = {} THEN None
        ELSE defs[c[CHOOSE i \in setters : \A j \in setters : i <= j]].fields[f]

RequiredFields ==
    { "pass", "vertex_shader", "fragment_shader", "states", "vertex_fields",
      "depth_func", "primitive_mode", "render_queue", "msaa_support" } \cap Fields

\* C1: every pipeline of the output whose chain is acyclic has, in every
\* field, the value of the nearest definition on its chain that sets the
\* field, and the field unset when no definition on the chain sets it.
C1_NearestAncestorValue ==
    \A i \in DOMAIN pipelines :
        LET p == pipelines[i].name IN
        (p \in DOMAIN parsed /\ Acyclic(parsed, p)) =>
            \A f \in Fields : pipelines[i].fields[f] = Nearest(parsed, p, f)

\* C2: the ancestor walk for one field of one pipeline never looks the same
\* pipeline name up twice (a walk that does, goes on for ever).
C2_WalkNeverRevisits == ~revisited

\* C3: when the parent chain of some pipeline runs into a name it has passed,
\* the resolver does not return a pipeline list (it ends with
\* InheritanceCycle; the return of line 176 is the code's only way to end).
C3_CycleNeverReturns ==
    (\E p \in DOMAIN parsed : ChainHasCycle(parsed, p, {})) => pc # "done"

\* C4: when a pipeline names a parent that is not a key of the map, the
\* resolver does not return a pipeline list (it ends with UnknownParent), and
\* the map the walk works on never gets an entry for the missing parent.
C4_UnknownParentRejected ==
    /\ (\E p \in DOMAIN parsed : parsed[p].parent_name \notin DOMAIN parsed \cup {None})
          => pc # "done"
    /\ DOMAIN all_pipelines \subseteq DOMAIN parsed

\* the keys of the map in alphabetical order
SortedKeys(map) == SelectSeq(AllNames, LAMBDA n : n \in DOMAIN map)

\* C5: the set of pipelines returned is the same for every iteration order of
\* the map and every order of the fill_field calls.  A run, whatever order it
\* iterates in, returns the set that the alphabetical order yields; and for
\* the parsed document every key order and every field order ends exactly
\* when the alphabetical one does, and with the same set.
C5_OrderIndependent ==
    LET sorted == ResolveInOrder(parsed, SortedKeys(parsed), FieldOrder, << >>) IN
    /\ pc = "done" => sorted.ends /\ Range(sorted.val) = Range(pipelines)
    /\ (pc = "iterate" /\ todo = DOMAIN parsed) =>
          \A keys \in Orders(DOMAIN parsed), fs \in Orders(Fields) :
              LET out == ResolveInOrder(parsed, keys, fs, << >>) IN
              /\ out.ends = sorted.ends
              /\ out.ends => Range(out.val) = Range(sorted.val)

\* a run has returned in which a child lacks a field that its parent, itself
\* a child, sets: the walks had values to find
C5_Witness ==
    /\ pc = "done"
    /\ Len(pipelines) >= 2
    /\ \E p \in DOMAIN parsed, f \in Fields :
          /\ parsed[p].parent_name \in DOMAIN parsed \ {p}
          /\ parsed[p].fields[f] = None
          /\ parsed[parsed[p].parent_name].fields[f] # None
          /\ parsed[parsed[p].parent_name].parent_name # None

\* C6: no pipeline of the output has a required field unset.
C6_RequiredFieldsResolved ==
    \A i \in DOMAIN pipelines :
        \A f \in RequiredFields : pipelines[i].fields[f] # None

\* C7: the definition map is at every moment what it was after parsing.
C7_DefinitionsUnmodified == definition_map = parsed

\* a walk has overwritten our entry in the map it works on, and has found
\* the value there
C7_Witness ==
    /\ pc = "walk"
    /\ value_found
    /\ all_pipelines[item] # definition_map[item]

\* C8: a pipeline declared without a parent is in the output, once the loop
\* has passed it, exactly as defined: every entry of the output under its
\* name equals its definition.
C8_ParentlessUnchanged ==
    \A k \in DOMAIN parsed :
        (parsed[k].parent_name = None /\ k \notin todo) =>
            /\ \E i \in DOMAIN pipelines : pipelines[i] = parsed[k]
            /\ \A i \in DOMAIN pipelines :
                  pipelines[i].name = k => pipelines[i] = parsed[k]

\* a run has returned a parentless pipeline that sets one field and leaves
\* another unset, next to a child of it
C8_Witness ==
    /\ pc = "done"
    /\ \E k \in DOMAIN parsed, c \in DOMAIN parsed :
          /\ parsed[k].parent_name = None
          /\ parsed[c].parent_name = k
          /\ \E f, g \in Fields : parsed[k].fields[f] # None /\ parsed[k].fields[g] = None
          /\ \E i \in DOMAIN pipelines : pipelines[i] = parsed[k]

\* ------------------------------------------------------- load_shaderpack
\* lines 42-47 with 211-214: the name is a zip file.  LOG(FATAL) of
\* easylogging++ aborts the process unless the abort is disabled in the
\* logger's configuration; when it is disabled the throw of line 213 leaves
\* load_shaderpack.  Line 46 is never reached.
ZipReturnsNoSources == {"returned"}
load_sources_from_zip_file == {"aborted", "threw"}

\* lines 63-71: the kinds an error is logged for
LoggedErrorsNoMaterials(p) == {k \in {"passes", "pipelines_by_pass"} : p[k] = {}}
LoggedErrors(p) == {k \in {"passes", "pipelines_by_pass", "materials"} : p[k] = {}}

LoadShaderpackZip ==
    /\ load_result = "none"
    /\ \E prof \in Profiles \cup {None}, outcome \in load_sources_from_zip_file :
          /\ profile' = prof
          /\ load_result' = outcome
    /\ is_zip' = TRUE
    /\ user_docs' = EmptyPack
    /\ pack' = EmptyPack
    /\ errors' = {"zip"}
    /\ kinds_read' = {}
    /\ UNCHANGED << resolver_vars, cache_vars, thread_vars, gpu_vars >>

\* lines 48-76: the name is a folder.  What the four loaders return is the
\* input; the three checks of lines 63-71 log and nothing else.
LoadShaderpackFolder ==
    /\ load_result = "none"
    /\ \E prof \in Profiles \cup {None}, docs \in [Kinds -> SUBSET Docs] :
          /\ profile' = prof
          /\ user_docs' = docs
          /\ pack' = [EmptyPack EXCEPT
                        !["pipelines_by_pass"] = docs["pipelines_by_pass"],
                        !["passes"] = docs["passes"],
                        !["dynamic_textures"] = docs["dynamic_textures"],
                        !["materials"] = docs["materials"]]
    /\ errors' = LoggedErrors(pack')
    /\ kinds_read' = Kinds
    /\ is_zip' = FALSE
    /\ load_result' = "returned"
    /\ UNCHANGED << resolver_vars, cache_vars, thread_vars, gpu_vars >>

LoadInit ==
    /\ ResolverIdle
    /\ LoadIdle
    /\ CacheIdle
    /\ ThreadIdle
    /\ GpuIdle
    /\ files = [p \in Paths |-> Absent]

LoadNext ==
    \/ LoadShaderpackZip
    \/ LoadShaderpackFolder

LoadSpec == LoadInit /\ [][LoadNext]_vars

\* C9: a returned Shaderpack has, for every document kind the user's
\* shaderpack left empty, the documents of the default profile that applies.
C9_DefaultsFillEmptyKinds ==
    (load_result = "returned" /\ profile # None) =>
        \A k \in Kinds :
            user_docs[k] = {} => pack[k] = ProfileDocs(profile, k)

LoadDefault(cache, fs, path) ==
    IF JsonEmpty(cache)
    THEN IF fs[path] # Absent
         THEN [cache |-> fs[path], loaded |-> TRUE, path |-> path]
         ELSE [cache |-> cache, loaded |-> FALSE, path |-> path]
    ELSE [cache |-> cache, loaded |-> FALSE, path |-> path]

Recorded(c, r) ==
    /\ accesses' = accesses + 1
    /\ loads' = [loads EXCEPT ![c] = IF r.loaded THEN @ + 1 ELSE @]
    /\ first_loaded' = [first_loaded EXCEPT
                          ![c] = IF r.loaded /\ @ = None THEN r.cache ELSE @]
    /\ loaded_from' = [loaded_from EXCEPT
                         ![c] = IF r.loaded THEN @ \cup {r.path} ELSE @]
    /\ last_returned' = [last_returned EXCEPT ![c] = r.cache]

\* lines 216-229
GetDefaultBedrockPasses ==
    /\ accesses < MaxAccesses
    /\ LET r == LoadDefault(default_bedrock_passes, files, BedrockPathRead) IN
          /\ default_bedrock_passes' = r.cache
          /\ Recorded("bedrock", r)
    /\ UNCHANGED << files, default_optifine_passes, resolver_vars, load_vars, thread_vars, gpu_vars >>

\* lines 231-244
GetDefaultOptifinePasses ==
    /\ accesses < MaxAccesses
    /\ LET r == LoadDefault(default_optifine_passes, files, OptifinePathRead) IN
          /\ default_optifine_passes' = r.cache
          /\ Recorded("optifine", r)
    /\ UNCHANGED << files, default_bedrock_passes, resolver_vars, load_vars, thread_vars, gpu_vars >>

\* the environment: a file under config/default is written, or removed
ReplaceFile ==
    /\ \E p \in Paths, d \in FileDocs \cup {Absent} :
          /\ d # files[p]
          /\ files' = [files EXCEPT ![p] = d]
    /\ UNCHANGED << default_bedrock_passes, default_optifine_passes, accesses,
                    loads, first_loaded, loaded_from, last_returned,
                    resolver_vars, load_vars, thread_vars, gpu_vars >>

CacheInit ==
    /\ ResolverIdle
    /\ LoadIdle
    /\ CacheIdle
    /\ ThreadIdle
    /\ GpuIdle
    /\ files \in [Paths -> FileDocs \cup {Absent}]

CacheNext ==
    \/ GetDefaultBedrockPasses
    \/ GetDefaultOptifinePasses
    \/ ReplaceFile

CacheSpec == CacheInit /\ [][CacheNext]_vars

\* C10: no file is loaded before the first call; a cache is loaded at most
\* once in the process, whatever the document loaded; and every call after
\* the load returns the document of that load.
C10_LoadedOnceAndCached ==
    /\ accesses = 0 => \A c \in Caches : loads[c] = 0
    /\ \A c \in Caches :
          /\ loads[c] <= 1
          /\ first_loaded[c] # None => last_returned[c] = first_loaded[c]

\* C11: the Bedrock cache is only ever loaded from bedrock_passes.json and the
\* Optifine cache only from optifine_passes.json, never from the Bedrock file.
C11_OptifineReadsOptifineFile ==
    /\ loaded_from["bedrock"] \subseteq {BedrockPath}
    /\ loaded_from["optifine"] \subseteq {OptifinePath}

\* ------------------------------- get_default_*_passes, called by threads
\* The two functions take no lock and use no once-flag: a thread runs the
\* lines 219-228 (234-243) one after the other, and the steps of the threads
\* interleave.  The assignment of line 222 is not atomic: between its begin
\* and its end the static is Torn.
CacheOf(fn) ==
    IF fn = "bedrock" THEN default_bedrock_passes ELSE default_optifine_passes

PathReadBy(fn) == IF fn = "bedrock" THEN BedrockPathRead ELSE OptifinePathRead

SetCache(fn, doc) ==
    /\ default_bedrock_passes' = IF fn = "bedrock" THEN doc ELSE default_bedrock_passes
    /\ default_optifine_passes' = IF fn = "optifine" THEN doc ELSE default_optifine_passes

cache_history == << accesses, loads, first_loaded, loaded_from, last_returned >>

\* a thread calls one of the two functions
ThreadCall ==
    /\ \E t \in Threads, fn \in Caches :
          /\ th_pc[t] = "idle"
          /\ th_pc' = [th_pc EXCEPT ![t] = "check"]
          /\ th_fn' = [th_fn EXCEPT ![t] = fn]
    /\ UNCHANGED << th_doc, th_ret, file_reads, cache_writes, saw_torn, files,
                    default_bedrock_passes, default_optifine_passes,
                    cache_history, resolver_vars, load_vars, gpu_vars >>

\* lines 219, 234: the test of empty().  On a static that another thread is
\* writing the test is a data race, and may come out either way.
ThreadCheckEmpty ==
    /\ \E t \in Threads :
          /\ th_pc[t] = "check"
          /\ \E e \in IF CacheOf(th_fn[t]) = Torn THEN BOOLEAN
                      ELSE {JsonEmpty(CacheOf(th_fn[t]))} :
                th_pc' = [th_pc EXCEPT ![t] = IF e THEN "open" ELSE "return"]
          /\ saw_torn' = (saw_torn \/ CacheOf(th_fn[t]) = Torn)
    /\ UNCHANGED << th_fn, th_doc, th_ret, file_reads, cache_writes, files,
                    default_bedrock_passes, default_optifine_passes,
                    cache_history, resolver_vars, load_vars, gpu_vars >>

\* lines 220-225, 235-240: the file is opened and, when it is open, read by
\* load_json_from_stream; when it is not, the error is logged
ThreadOpen ==
    /\ \E t \in Threads :
          /\ th_pc[t] = "open"
          /\ LET content == files[PathReadBy(th_fn[t])] IN
                IF content = Absent
                THEN /\ th_pc' = [th_pc EXCEPT ![t] = "return"]
                     /\ UNCHANGED << th_doc, file_reads >>
                ELSE /\ th_pc' = [th_pc EXCEPT ![t] = "assign"]
                     /\ th_doc' = [th_doc EXCEPT ![t] = content]
                     /\ file_reads' = [file_reads EXCEPT ![th_fn[t]] = @ + 1]
    /\ UNCHANGED << th_fn, th_ret, cache_writes, saw_torn, files,
                    default_bedrock_passes, default_optifine_passes,
                    cache_history, resolver_vars, load_vars, gpu_vars >>

\* lines 222, 237: the assignment to the static begins.  Threads that assign
\* to the same static at the same time race.
ThreadBeginAssign ==
    /\ \E t \in Threads :
          /\ th_pc[t] = "assign"
          /\ LET others == {u \in Threads \ {t} :
                              /\ th_pc[u] \in {"assigning", "racing"}
                              /\ th_fn[u] = th_fn[t]}
             IN  th_pc' = [u \in Threads |->
                             IF u = t THEN (IF others = {} THEN "assigning" ELSE "racing")
                             ELSE IF u \in others THEN "racing"
                             ELSE th_pc[u]]
          /\ SetCache(th_fn[t], Torn)
    /\ UNCHANGED << th_fn, th_doc, th_ret, file_reads, cache_writes, saw_torn,
                    files, cache_history, resolver_vars, load_vars, gpu_vars >>

\* lines 222, 237: the assignment ends.  The static holds the document,
\* unless another thread is still writing it; after a race of two
\* assignments it may hold anything.
ThreadEndAssign ==
    /\ \E t \in Threads :
          /\ th_pc[t] \in {"assigning", "racing"}
          /\ LET still == \E u \in Threads \ {t} :
                              /\ th_pc[u] \in {"assigning", "racing"}
                              /\ th_fn[u] = th_fn[t]
             IN  \E doc \in IF still THEN {Torn}
                            ELSE IF th_pc[t] = "racing" THEN {th_doc[t], Torn}
                            ELSE {th_doc[t]} :
                    SetCache(th_fn[t], doc)
          /\ cache_writes' = [cache_writes EXCEPT ![th_fn[t]] = @ + 1]
          /\ th_pc' = [th_pc EXCEPT ![t] = "return"]
    /\ UNCHANGED << th_fn, th_doc, th_ret, file_reads, saw_torn, files,
                    cache_history, resolver_vars, load_vars, gpu_vars >>

\* lines 228, 243: the reference to the static is returned and the caller
\* reads the document behind it
ThreadReturn ==
    /\ \E t \in Threads :
          /\ th_pc[t] = "return"
          /\ th_ret' = [th_ret EXCEPT ![t] = CacheOf(th_fn[t])]
          /\ saw_torn' = (saw_torn \/ CacheOf(th_fn[t]) = Torn)
          /\ th_pc' = [th_pc EXCEPT ![t] = "returned"]
    /\ UNCHANGED << th_fn, th_doc, file_reads, cache_writes, files,
                    default_bedrock_passes, default_optifine_passes,
                    cache_history, resolver_vars, load_vars, gpu_vars >>

ThreadInit ==
    /\ ResolverIdle
    /\ LoadIdle
    /\ CacheIdle
    /\ ThreadIdle
    /\ GpuIdle
    /\ files \in [Paths -> FileDocs \cup {Absent}]

ThreadNext ==
    \/ ThreadCall
    \/ ThreadCheckEmpty
    \/ ThreadOpen
    \/ ThreadBeginAssign
    \/ ThreadEndAssign
    \/ ThreadReturn

ThreadSpec == ThreadInit /\ [][ThreadNext]_vars

\* C12: when threads call get_default_bedrock_passes (or
\* get_default_optifine_passes) at the same time on the empty cache, at most
\* one of them reads the backing file and at most one assigns to the cache,
\* and none reads a document that is being written.  (Stated for a backing
\* file that holds a non-empty document, so that a second read is the work of
\* a second thread that passed the test of empty() before the first assigned.)
C12_FirstUseGuarded ==
    /\ \A c \in Caches :
          ~JsonEmpty(files[PathReadBy(c)]) =>
              file_reads[c] <= 1 /\ cache_writes[c] <= 1
    /\ ~saw_torn

\* ------------------------------------------------ select_physical_device
\* A uint32_t is kept as its two 16-bit halves.
HalfMax == 65535

U32(n) == [hi |-> 0, lo |-> n]

\* x >= y on uint32_t values
U32Ge(x, y) == x.hi > y.hi \/ (x.hi = y.hi /\ x.lo >= y.lo)

\* uint32_t graphics_idx = 0xFFFFFFFF, the value of "no family found"
NotFound == [hi |-> HalfMax, lo |-> HalfMax]

\* gpu.props.vendorID of an Intel GPU, 0x8086
IntelVendorID == 32902

VendorIDs == {IntelVendorID, 0}

\* vk::QueueFamilyProperties as far as the function reads it, with the answer
\* of getSurfaceSupportKHR for the family
QueueFamilyProps ==
    [queueCount : {0, 1}, graphics : BOOLEAN, supports_present : BOOLEAN]

FamilyLists == UNION {[1..n -> QueueFamilyProps] : n \in 0..MaxFamilies}

\* gpu_info as far as the function reads it
GpuInfos ==
    [vendorID : VendorIDs,
     surface_formats_empty : BOOLEAN,
     present_modes_empty : BOOLEAN,
     queue_family_props : FamilyLists]

SetMin(S) == CHOOSE x \in S : \A y \in S : x <= y

\* lines 139, 151-161: the first family with queues and the graphics flag,
\* as a 0-based index, or the initial value
GraphicsIdx(g) ==
    LET found == {i \in 0..(Len(g.queue_family_props) - 1) :
                      /\ g.queue_family_props[i + 1].queueCount # 0
                      /\ g.queue_family_props[i + 1].graphics}
    IN  IF found = {} THEN NotFound ELSE U32(SetMin(found))

\* lines 140, 164-177: the first family with queues that can present
PresentIdx(g) ==
    LET found == {i \in 0..(Len(g.queue_family_props) - 1) :
                      /\ g.queue_family_props[i + 1].queueCount # 0
                      /\ g.queue_family_props[i + 1].supports_present}
    IN  IF found = {} THEN NotFound ELSE U32(SetMin(found))

\* line 179: graphics_idx >= 0 && present_idx >= 0, on uint32_t values
BothFound(graphics_idx, present_idx) ==
    /\ U32Ge(graphics_idx, U32(0))
    /\ U32Ge(present_idx, U32(0))

\* line 133: an Intel GPU is passed over when there are other GPUs
SkipIntel ==
    /\ sel_pc = "loop"
    /\ gpu_i < gpus_size
    /\ \E g \in GpuInfos :
          g.vendorID = IntelVendorID /\ gpus_size > 1
    /\ gpu_i' = gpu_i + 1
    /\ UNCHANGED << gpus_size, gpu, graphics_family_idx, present_family_idx,
                    sel_pc, resolver_vars, load_vars, cache_vars, thread_vars >>

\* line 142: a GPU without surface formats is passed over
SkipNoSurfaceFormats ==
    /\ sel_pc = "loop"
    /\ gpu_i < gpus_size
    /\ \E g \in GpuInfos :
          /\ ~(g.vendorID = IntelVendorID /\ gpus_size > 1)
          /\ g.surface_formats_empty
    /\ gpu_i' = gpu_i + 1
    /\ UNCHANGED << gpus_size, gpu, graphics_family_idx, present_family_idx,
                    sel_pc, resolver_vars, load_vars, cache_vars, thread_vars >>

\* line 146: a GPU without present modes is passed over
SkipNoPresentModes ==
    /\ sel_pc = "loop"
    /\ gpu_i < gpus_size
    /\ \E g \in GpuInfos :
          /\ ~(g.vendorID = IntelVendorID /\ gpus_size > 1)
          /\ ~g.surface_formats_empty
          /\ g.present_modes_empty
    /\ gpu_i' = gpu_i + 1
    /\ UNCHANGED << gpus_size, gpu, graphics_family_idx, present_family_idx,
                    sel_pc, resolver_vars, load_vars, cache_vars, thread_vars >>

\* lines 150-187: the two searches, the test of line 179 and the selection
SelectGpu ==
    /\ sel_pc = "loop"
    /\ gpu_i < gpus_size
    /\ \E g \in GpuInfos :
          /\ ~(g.vendorID = IntelVendorID /\ gpus_size > 1)
          /\ ~g.surface_formats_empty
          /\ ~g.present_modes_empty
          /\ IF BothFound(GraphicsIdx(g), PresentIdx(g))
             THEN /\ graphics_family_idx' = GraphicsIdx(g)
                  /\ present_family_idx' = PresentIdx(g)
                  /\ gpu' = g
                  /\ sel_pc' = "returned"
                  /\ UNCHANGED gpu_i
             ELSE /\ gpu_i' = gpu_i + 1
                  /\ UNCHANGED << gpu, graphics_family_idx, present_family_idx,
                                  sel_pc >>
    /\ UNCHANGED << gpus_size, resolver_vars, load_vars, cache_vars, thread_vars >>

\* line 191: the loop ended without a return
ReportFatal ==
    /\ sel_pc = "loop"
    /\ gpu_i = gpus_size
    /\ sel_pc' = "fatal"
    /\ UNCHANGED << gpus_size, gpu_i, gpu, graphics_family_idx,
                    present_family_idx, resolver_vars, load_vars, cache_vars,
                    thread_vars >>

GpuInit ==
    /\ ResolverIdle
    /\ LoadIdle
    /\ CacheIdle
    /\ files = [p \in Paths |-> Absent]
    /\ ThreadIdle
    /\ gpus_size \in 0..MaxGpus
    /\ gpu_i = 0
    /\ gpu = None
    /\ graphics_family_idx = None
    /\ present_family_idx = None
    /\ sel_pc = "loop"

GpuNext ==
    \/ SkipIntel
    \/ SkipNoSurfaceFormats
    \/ SkipNoPresentModes
    \/ SelectGpu
    \/ ReportFatal

GpuSpec == GpuInit /\ [][GpuNext]_vars

\* C15: when select_physical_device has returned with a device selected,
\* graphics_family_idx is the index of a queue family of that device with
\* queueCount > 0 and the graphics flag, and present_family_idx is the index
\* of one with queueCount > 0 that can present to the surface.
C15_SelectedHasBothFamilies ==
    sel_pc = "returned" =>
        /\ graphics_family_idx.hi = 0
        /\ graphics_family_idx.lo \in 0..(Len(gpu.queue_family_props) - 1)
        /\ gpu.queue_family_props[graphics_family_idx.lo + 1].queueCount > 0
        /\ gpu.queue_family_props[graphics_family_idx.lo + 1].graphics
        /\ present_family_idx.hi = 0
        /\ present_family_idx.lo \in 0..(Len(gpu.queue_family_props) - 1)
        /\ gpu.queue_family_props[present_family_idx.lo + 1].queueCount > 0
        /\ gpu.queue_family_props[present_family_idx.lo + 1].supports_present

====
